---- MODULE Spec2Model ----
(***************************************************************************)
(* bankGO: a bank-account REST service (api.go, storage.go, the account    *)
(* types and main.go).  The model holds the account table, the requests    *)
(* to /account/{id} that have passed withJWTAuth and wait for their        *)
(* handler, the tokens HandleLogin has issued, and the last thing the      *)
(* server did for a request (event).                                       *)
(*                                                                         *)
(* Every store call is one SQL statement and is atomic; requests run       *)
(* concurrently (net/http serves each connection on its own goroutine), so *)
(* the steps of different requests interleave between store calls.  The    *)
(* only handler path with two store calls is /account/{id}: the lookup of  *)
(* the gate, then the call of the handler.                                 *)
(*                                                                         *)
(* event is an observation channel: an action writes what it did, Observe  *)
(* clears it, and no request is taken while it is set.  The server never   *)
(* reads event, so this removes no interleaving of store calls.            *)
(***************************************************************************)
EXTENDS Integers, Sequences, FiniteSets, Bags, TLC

VARIABLES store, nextID, pending, issued, event

vars == <<store, nextID, pending, issued, event>>

(***************************************************************************)
(* Bounds of the model and constants of the program.                       *)
(***************************************************************************)
\* rows the table ever gets (the serial id is unbounded in the program)
MaxAccounts == 2
\* requests to /account/{id} between the gate and the handler at one time
MaxInFlight == 2
\* rand.Intn(100000) in NewAccount
NumberRange == 100000
\* the "expiresAt" claim of createJWT
ExpiresAt == 15000
StatusOK == 200
StatusBadRequest == 400
StatusForbidden == 403

\* outcomes of rand.Intn(n) the model draws: the two ends of the range
RandIntn(n) == {0, n - 1}

Passwords == {"pw1", "wrong"}
Salts == {"s1"}
\* clock readings at which a token is verified: the expiry instant and past it
Times == {ExpiresAt, ExpiresAt + 1}

(***************************************************************************)
(* strconv.Atoi, on strings given as sequences of one-character strings.   *)
(***************************************************************************)
Digits == <<"0", "1", "2", "3", "4", "5", "6", "7", "8", "9">>

IsDigit(c) == \E i \in 1..10 : Digits[i] = c

DigitVal(c) == (CHOOSE i \in 1..10 : Digits[i] = c) - 1

RECURSIVE ParseDigits(_, _)
ParseDigits(s, acc) ==
    IF s = <<>> THEN acc
    ELSE ParseDigits(Tail(s), acc * 10 + DigitVal(Head(s)))

Atoi(s) ==
    LET signed == s # <<>> /\ Head(s) \in {"+", "-"}
        digits == IF signed THEN Tail(s) ELSE s
    IN  IF digits = <<>> \/ \E i \in 1..Len(digits) : ~IsDigit(digits[i])
        THEN [ok |-> FALSE, val |-> 0]
        ELSE [ok |-> TRUE,
              val |-> IF Head(s) = "-" THEN 0 - ParseDigits(digits, 0)
                      ELSE ParseDigits(digits, 0)]

\* getID: chi.URLParam(r, "id") then Atoi; a route without {id} gives ""
getID(idStr) == Atoi(idStr)

\* the {id} segments the model sends: every id the table can hold, and a
\* segment that is no number
IdStrings == {<<Digits[i + 1]>> : i \in 1..MaxAccounts} \cup {<<"x">>}

(***************************************************************************)
(* bcrypt: a hash carries its salt; comparing recomputes the digest.       *)
(***************************************************************************)
GenerateFromPassword(pw, salt) == [salt |-> salt, digest |-> <<salt, pw>>]

CompareHashAndPassword(hash, pw) == hash.digest = <<hash.salt, pw>>

ValidatePW(acc, pw) == CompareHashAndPassword(acc.encryptedPassword, pw)

\* NewAccount: the id is left 0, the balance 0
NewAccount(firstName, lastName, password, salt, number) ==
    [id |-> 0, firstName |-> firstName, lastName |-> lastName,
     number |-> number, balance |-> 0,
     encryptedPassword |-> GenerateFromPassword(password, salt)]

\* json.Marshal of an Account: EncryptedPassword has the tag json:"-"
AccountJSON(acc) ==
    [id |-> acc.id, firstName |-> acc.firstName, lastName |-> acc.lastName,
     number |-> acc.number, balance |-> acc.balance]

(***************************************************************************)
(* The account table: a function from the serial id to the row.            *)
(***************************************************************************)
\* INSERT: the table assigns the next serial id
CreateAccount(st, id, acc) ==
    [i \in DOMAIN st \cup {id} |-> IF i = id THEN [acc EXCEPT !.id = id] ELSE st[i]]

\* DELETE FROM account WHERE ID = $1: no error when no row matches
DeleteAccount(st, id) == [i \in DOMAIN st \ {id} |-> st[i]]

\* mutant of UpdateAccountRows: an UPDATE that writes every column of the row
UpdateAccountRows_WritesRow(st, acc) ==
    IF acc.id \in DOMAIN st THEN [st EXCEPT ![acc.id] = acc] ELSE st

\* UpdateAccount returns nil and writes nothing
UpdateAccountRows(st, acc) == st

\* the rows SELECT * FROM account WHERE number = $1 returns; the handler
\* takes the first, and the statement gives no ORDER BY
RowsByNumber(st, number) == {i \in DOMAIN st : st[i].number = number}

GetAccountByID(st, id) ==
    IF id \in DOMAIN st THEN [ok |-> TRUE, acc |-> st[id]]
    ELSE [ok |-> FALSE, acc |-> [id |-> 0]]

GetAccounts(st) == {AccountJSON(st[i]) : i \in DOMAIN st}

(***************************************************************************)
(* Tokens.  The x-jwt-token header is "" (absent), a string that does not  *)
(* verify, or a token signed with the server secret.                       *)
(***************************************************************************)
NoHeader == [kind |-> "absent"]
Garbage == [kind |-> "garbage"]

createJWT(acc) ==
    [kind |-> "signed", accountNumber |-> acc.number, expiresAt |-> ExpiresAt]

\* jwt.Parse with the HMAC key function: the signature must verify; the
\* claims hold no "exp", so the clock reading `now` decides nothing
validateJWT(token, now) == token.kind = "signed"

(***************************************************************************)
(* Responses.                                                              *)
(***************************************************************************)
NoBody == [empty |-> TRUE]
BadJSON == [malformed |-> TRUE]

Decodes(body) == body # BadJSON /\ body # NoBody

APIError(msg) == [error |-> msg]

Response(status, body) == [status |-> status, body |-> body]

\* makeHTTPHandleFunc: an error the handler returns becomes a 400
ErrorResponse(msg) == Response(StatusBadRequest, APIError(msg))

PermissionsDenied == Response(StatusForbidden, APIError("Permission denied"))

IsError(body) == "error" \in DOMAIN body

NoEvent == [kind |-> "none"]

(***************************************************************************)
(* Handlers, as functions of the table and the request.                    *)
(***************************************************************************)
Outcome(st, resp) == [store |-> st, resp |-> resp]

\* GetAccountByNumber: the first row the SELECT returns, or an error
GetAccountByNumber(st, number) ==
    IF RowsByNumber(st, number) = {} THEN {[ok |-> FALSE, acc |-> [id |-> 0]]}
    ELSE {[ok |-> TRUE, acc |-> st[i]] : i \in RowsByNumber(st, number)}

\* mutant of LoginResponse: the token is issued without ValidatePW
LoginResponse_NoPasswordCheck(found, password) ==
    IF ~found.ok THEN ErrorResponse("Account with number not found")
    ELSE Response(StatusOK, [number |-> found.acc.number,
                             token |-> createJWT(found.acc)])

\* HandleLogin after the method check and the decode: `found` is what
\* GetAccountByNumber returned
LoginResponse(found, password) ==
    IF ~found.ok THEN ErrorResponse("Account with number not found")
    ELSE IF ~ValidatePW(found.acc, password) THEN ErrorResponse("failed to login")
    ELSE Response(StatusOK, [number |-> found.acc.number,
                             token |-> createJWT(found.acc)])

\* HandleLogin: the responses it can give, each with the row it used
HandleLogin(st, req) ==
    IF req.method # "POST" THEN {[resp |-> PermissionsDenied, account |-> 0]}
    ELSE IF ~Decodes(req.body)
    THEN {[resp |-> ErrorResponse("decode"), account |-> 0]}
    ELSE {[resp |-> LoginResponse(found, req.body.password),
           account |-> found.acc.id] :
            found \in GetAccountByNumber(st, req.body.number)}

HandleGetAccount(st) == Outcome(st, Response(StatusOK, [accounts |-> GetAccounts(st)]))

\* HandleCreateAccount; nid is the serial id the INSERT will take
HandleCreateAccount(st, nid, req, salt, number) ==
    IF ~Decodes(req.body) THEN Outcome(st, ErrorResponse("decode"))
    ELSE LET acc == NewAccount(req.body.firstName, req.body.lastName,
                               req.body.password, salt, number)
         IN  Outcome(CreateAccount(st, nid, acc),
                     Response(StatusOK, AccountJSON(acc)))

HandleAccount(st, nid, req, salt, number) ==
    IF req.method = "GET" THEN HandleGetAccount(st)
    ELSE IF req.method = "POST" THEN HandleCreateAccount(st, nid, req, salt, number)
    ELSE Outcome(st, ErrorResponse("methods not allowed"))

HandleGetAccountByID(st, idStr) ==
    LET id == getID(idStr) IN
    IF ~id.ok THEN Outcome(st, ErrorResponse("invalid ID provided"))
    ELSE IF ~GetAccountByID(st, id.val).ok
    THEN Outcome(st, ErrorResponse("Account not found"))
    ELSE Outcome(st, Response(StatusOK, AccountJSON(GetAccountByID(st, id.val).acc)))

HandleDeleteAccount(st, idStr) ==
    LET id == getID(idStr) IN
    IF ~id.ok THEN Outcome(st, ErrorResponse("invalid ID provided"))
    ELSE Outcome(DeleteAccount(st, id.val),
                 Response(StatusOK, [deleted |-> id.val]))

\* mutant of HandleTransferToAccount: the amount is credited to toAccount
HandleTransferToAccount_Credits(st, req) ==
    IF ~Decodes(req.body) THEN Outcome(st, ErrorResponse("decode"))
    ELSE IF req.body.toAccount \in DOMAIN st
    THEN Outcome([st EXCEPT ![req.body.toAccount].balance = @ + req.body.amount],
                 Response(StatusOK, req.body))
    ELSE Outcome(st, Response(StatusOK, req.body))

HandleTransferToAccount(st, req) ==
    IF ~Decodes(req.body) THEN Outcome(st, ErrorResponse("decode"))
    ELSE Outcome(st, Response(StatusOK, req.body))

\* /transfer has no {id}: getID reads ""
HandleTransfer(st, req) ==
    IF req.method = "GET" THEN HandleGetAccount(st)
    ELSE IF req.method = "POST" THEN HandleTransferToAccount(st, req)
    ELSE IF req.method = "DELETE" THEN HandleDeleteAccount(st, <<>>)
    ELSE Outcome(st, ErrorResponse("methods not allowed"))

HandleSingleAccount(st, req) ==
    IF req.method = "GET" THEN HandleGetAccountByID(st, req.idStr)
    ELSE IF req.method = "DELETE" THEN HandleDeleteAccount(st, req.idStr)
    ELSE Outcome(st, ErrorResponse("method not provided"))

\* withJWTAuth: whether the gate calls the wrapped handler, and the response
\* it writes itself when it does not
Allowed == [allowed |-> TRUE, resp |-> Response(0, NoBody)]

Denied == [allowed |-> FALSE, resp |-> PermissionsDenied]

\* mutants of withJWTAuth: the gate without the comparison of the account's
\* number to the token's, and the gate answering a lookup miss as handlers do
withJWTAuth_NoNumberCheck(st, req) ==
    IF req.header = NoHeader THEN Denied
    ELSE IF ~validateJWT(req.header, req.at) THEN Denied
    ELSE IF ~getID(req.idStr).ok THEN Denied
    ELSE IF ~GetAccountByID(st, getID(req.idStr).val).ok THEN Denied
    ELSE Allowed

withJWTAuth_LeakNotFound(st, req) ==
    IF req.header = NoHeader THEN Denied
    ELSE IF ~validateJWT(req.header, req.at) THEN Denied
    ELSE IF ~getID(req.idStr).ok THEN Denied
    ELSE IF ~GetAccountByID(st, getID(req.idStr).val).ok
    THEN [allowed |-> FALSE, resp |-> ErrorResponse("Account not found")]
    ELSE IF GetAccountByID(st, getID(req.idStr).val).acc.number
              # req.header.accountNumber
    THEN Denied
    ELSE Allowed

withJWTAuth(st, req) ==
    IF req.header = NoHeader THEN Denied
    ELSE IF ~validateJWT(req.header, req.at) THEN Denied
    ELSE IF ~getID(req.idStr).ok THEN Denied
    ELSE IF ~GetAccountByID(st, getID(req.idStr).val).ok THEN Denied
    ELSE IF GetAccountByID(st, getID(req.idStr).val).acc.number
              # req.header.accountNumber
    THEN Denied
    ELSE Allowed

(***************************************************************************)
(* The requests the model sends.                                           *)
(***************************************************************************)
LoginRequests ==
    {[route |-> "/login", method |-> "POST", body |-> b] :
        b \in {BadJSON} \cup [number : RandIntn(NumberRange), password : Passwords]}
    \cup {[route |-> "/login", method |-> "GET", body |-> NoBody]}

AccountRequests ==
    {[route |-> "/account", method |-> "POST", body |-> b] :
        b \in {BadJSON} \cup [firstName : {"A"}, lastName : {"B"}, password : Passwords]}
    \cup {[route |-> "/account", method |-> m, body |-> NoBody] : m \in {"GET", "PUT"}}

TransferRequests ==
    {[route |-> "/transfer", method |-> "POST", body |-> b] :
        b \in {BadJSON} \cup [toAccount : {1}, amount : {50}]}
    \cup {[route |-> "/transfer", method |-> m, body |-> NoBody] :
            m \in {"GET", "DELETE", "PUT"}}

\* the clock is read only once the signature has verified
SingleAccountRequests ==
    {[route |-> "/account/{id}", method |-> m, idStr |-> s, header |-> h, at |-> t] :
        m \in {"GET", "DELETE", "PUT"}, s \in IdStrings,
        h \in {t.token : t \in issued}, t \in Times}
    \cup {[route |-> "/account/{id}", method |-> m, idStr |-> s, header |-> h,
           at |-> ExpiresAt] :
        m \in {"GET", "DELETE", "PUT"}, s \in IdStrings, h \in {NoHeader, Garbage}}

Responded(kind, req, resp) ==
    [kind |-> kind, req |-> req, status |-> resp.status, body |-> resp.body]

(***************************************************************************)
(* Actions.                                                                *)
(***************************************************************************)
Init ==
    /\ store = <<>>
    /\ nextID = 1
    /\ pending = EmptyBag
    /\ issued = {}
    /\ event = NoEvent

HandleLoginStep ==
    /\ event = NoEvent
    /\ \E req \in LoginRequests : \E out \in HandleLogin(store, req) :
        /\ event' = Responded("served", req, out.resp)
        /\ issued' = IF out.resp.status = StatusOK
                     THEN issued \cup {[token |-> out.resp.body.token,
                                        account |-> out.account]}
                     ELSE issued
    /\ UNCHANGED <<store, nextID, pending>>

HandleAccountStep ==
    /\ event = NoEvent
    /\ \E req \in AccountRequests :
        IF req.method = "POST" /\ Decodes(req.body)
        THEN /\ nextID <= MaxAccounts
             /\ \E salt \in Salts, number \in RandIntn(NumberRange) :
                 LET out == HandleAccount(store, nextID, req, salt, number) IN
                 /\ store' = out.store
                 /\ nextID' = nextID + 1
                 /\ event' = Responded("served", req, out.resp)
        ELSE LET out == HandleAccount(store, nextID, req, "s1", 0) IN
             /\ store' = out.store
             /\ event' = Responded("served", req, out.resp)
             /\ UNCHANGED nextID
    /\ UNCHANGED <<pending, issued>>

HandleTransferStep ==
    /\ event = NoEvent
    /\ \E req \in TransferRequests :
        LET out == HandleTransfer(store, req) IN
        /\ store' = out.store
        /\ event' = Responded("served", req, out.resp)
    /\ UNCHANGED <<nextID, pending, issued>>

\* HandleSingleAccount makes a store call for these methods only
CallsStore(method) == method \in {"GET", "DELETE"}

\* withJWTAuth up to the call of the wrapped handler.  A handler that makes
\* no store call (any method but GET and DELETE) answers in the same step:
\* nothing another request does can come between.
GateStep ==
    /\ event = NoEvent
    /\ BagCardinality(pending) < MaxInFlight
    /\ \E req \in SingleAccountRequests :
        LET out == withJWTAuth(store, req) IN
        IF out.allowed /\ CallsStore(req.method)
        THEN /\ pending' = pending (+) SetToBag({[method |-> req.method,
                                                  idStr |-> req.idStr]})
             /\ event' = Responded("allowed", req, out.resp)
             /\ UNCHANGED store
        ELSE IF out.allowed
        THEN /\ store' = HandleSingleAccount(store, req).store
             /\ event' = Responded("allowed", req,
                                   HandleSingleAccount(store, req).resp)
             /\ UNCHANGED pending
        ELSE /\ event' = Responded("denied", req, out.resp)
             /\ UNCHANGED <<store, pending>>
    /\ UNCHANGED <<nextID, issued>>

\* the wrapped handler of a request the gate let through
HandlerStep ==
    /\ event = NoEvent
    /\ \E p \in BagToSet(pending) :
        LET req == [route |-> "/account/{id}", method |-> p.method,
                    idStr |-> p.idStr]
            out == HandleSingleAccount(store, req)
        IN  /\ store' = out.store
            /\ pending' = pending (-) SetToBag({p})
            /\ event' = Responded("handled", req, out.resp)
    /\ UNCHANGED <<nextID, issued>>

\* Storage.UpdateAccount, which no handler calls
UpdateAccount ==
    /\ event = NoEvent
    /\ \E id \in DOMAIN store, number \in RandIntn(NumberRange) :
        store' = UpdateAccountRows(store, [store[id] EXCEPT !.number = number])
    /\ UNCHANGED <<nextID, pending, issued, event>>

\* the client has read what the server did
Observe ==
    /\ event # NoEvent
    /\ event' = NoEvent
    /\ UNCHANGED <<store, nextID, pending, issued>>

Next ==
    \/ HandleLoginStep
    \/ HandleAccountStep
    \/ HandleTransferStep
    \/ GateStep
    \/ HandlerStep
    \/ UpdateAccount
    \/ Observe

Spec == Init /\ [][Next]_vars

(***************************************************************************)
(* Properties.                                                             *)
(***************************************************************************)
\* the event carries a response the server wrote
IsResponse(e) == e.kind # "none" /\ e.status # 0

\* the five checks of the gate, for request req against table st
HeaderPresent(req) == req.header.kind # "absent"
TokenVerifies(req) == req.header.kind = "signed"
IdParses(req) == Atoi(req.idStr).ok
AccountExists(st, req) == Atoi(req.idStr).val \in DOMAIN st
NumberMatches(st, req) ==
    st[Atoi(req.idStr).val].number = req.header.accountNumber

GateChecksHold(st, req) ==
    /\ HeaderPresent(req)
    /\ TokenVerifies(req)
    /\ IdParses(req)
    /\ AccountExists(st, req)
    /\ NumberMatches(st, req)

\* C1: the gate hands a request to /account/{id} to the wrapped handler, and
\* a request waits for the handler, only if the header was present, the
\* token verified, {id} parsed, the account existed and its number was the
\* token's accountNumber when the gate ran (the gate writes nothing, so the
\* table of the state after the gate is the table it read).
C1_HandlerOnlyAfterChecks ==
    /\ event.kind = "allowed" =>
         /\ event.req.route = "/account/{id}"
         /\ GateChecksHold(store, event.req)
         /\ CallsStore(event.req.method) =>
              BagIn([method |-> event.req.method, idStr |-> event.req.idStr],
                    pending)
    /\ \A p \in BagToSet(pending) : Atoi(p.idStr).ok

C1_Witness ==
    /\ event.kind = "allowed"
    /\ event.req.method = "DELETE"
    /\ Cardinality(DOMAIN store) = 2

\* C2: every denial of the gate is the response 403 {"error": "Permission
\* denied"}, whichever check failed, and the step that denies neither queues
\* the request for the handler nor changes the account table.
C2_UniformDenial ==
    [][event'.kind = "denied" =>
         /\ event'.status = 403
         /\ event'.body = [error |-> "Permission denied"]
         /\ store' = store
         /\ nextID' = nextID
         /\ pending' = pending]_vars

\* a denial at the last check: a signed token for another account's number
C2_Witness ==
    /\ event.kind = "denied"
    /\ HeaderPresent(event.req)
    /\ TokenVerifies(event.req)
    /\ IdParses(event.req)
    /\ AccountExists(store, event.req)
    /\ ~NumberMatches(store, event.req)
    /\ event.status = 403

IsLoginAttempt(e) ==
    /\ e.kind = "served"
    /\ e.req.route = "/login"
    /\ e.req.method = "POST"
    /\ Decodes(e.req.body)

\* C3: a POST /login whose number no account has, or whose password no
\* account with that number accepts, is answered with an error and a status
\* other than 200, without a token, and the account table is unchanged.
C3_LoginFailure ==
    [][(/\ IsLoginAttempt(event')
        /\ ~\E id \in DOMAIN store :
               /\ store[id].number = event'.req.body.number
               /\ CompareHashAndPassword(store[id].encryptedPassword,
                                         event'.req.body.password))
       => /\ event'.status # 200
          /\ IsError(event'.body)
          /\ "token" \notin DOMAIN event'.body
          /\ store' = store
          /\ nextID' = nextID
          /\ issued' = issued]_vars

\* a wrong password for an account that exists
C3_Witness ==
    /\ IsLoginAttempt(event)
    /\ \E id \in DOMAIN store : store[id].number = event.req.body.number
    /\ event.status = 400
    /\ event.body = [error |-> "failed to login"]

\* C4: a POST /login with the number of a stored account and the password
\* the account was created with is answered 200 with a token bound to that
\* number.
C4_LoginOfEveryAccount ==
    (/\ IsLoginAttempt(event)
     /\ \E id \in DOMAIN store : \E salt \in Salts :
           /\ store[id].number = event.req.body.number
           /\ store[id].encryptedPassword
                = GenerateFromPassword(event.req.body.password, salt))
    => /\ event.status = 200
       /\ "token" \in DOMAIN event.body
       /\ event.body.token.accountNumber = event.req.body.number

\* C5: the gate never lets through a request whose token's expiry has passed.
C5_ExpiredTokenDenied ==
    event.kind = "allowed" => event.req.at <= event.req.header.expiresAt

IsDeleteResponse(e) ==
    /\ IsResponse(e)
    /\ e.req.route \in {"/account/{id}", "/transfer"}
    /\ e.req.method = "DELETE"

\* C6: a DELETE for an id no stored account has is answered with an error
\* (not 200) and leaves the account table unchanged, on /account/{id} and on
\* /transfer.
DeletesStoredAccount(st, req) ==
    /\ req.route = "/account/{id}"
    /\ Atoi(req.idStr).ok
    /\ Atoi(req.idStr).val \in DOMAIN st

C6_DeleteOfMissingIsError ==
    [][(IsDeleteResponse(event') /\ ~DeletesStoredAccount(store, event'.req))
       => /\ event'.status # 200
          /\ IsError(event'.body)
          /\ store' = store]_vars

\* C7: every account number is in [0, 100000), and an account that stays in
\* the table keeps its number in every step.
C7_NumberNeverReassigned ==
    [][/\ \A id \in DOMAIN store' :
            store'[id].number >= 0 /\ store'[id].number < 100000
       /\ \A id \in DOMAIN store \cap DOMAIN store' :
            store'[id].number = store[id].number]_vars

\* accounts at both ends of the range, after a delete went through
C7_Witness ==
    /\ event.kind = "handled"
    /\ event.req.method = "DELETE"
    /\ event.status = 200
    /\ \E id \in DOMAIN store : store[id].number = 99999
    /\ nextID > 2

\* C8: a request to /transfer leaves the account table as it was, and a POST
\* with a decodable body is answered 200 with the body it sent.
C8_TransferChangesNothing ==
    [][event'.kind = "served" /\ event'.req.route = "/transfer"
       => /\ store' = store
          /\ nextID' = nextID
          /\ (event'.req.method = "POST" /\ Decodes(event'.req.body)
                => event'.status = 200 /\ event'.body = event'.req.body)]_vars

\* a transfer to an account that exists
C8_Witness ==
    /\ event.kind = "served"
    /\ event.req.route = "/transfer"
    /\ event.req.method = "POST"
    /\ Decodes(event.req.body)
    /\ event.req.body.toAccount \in DOMAIN store
    /\ event.status = 200

\* C9: the gate lets a GET or DELETE on /account/{id} through only with a
\* token that a login to the account with that id was answered with.
C9_TokenOnlyForItsAccount ==
    (event.kind = "allowed" /\ event.req.method \in {"GET", "DELETE"})
    => [token |-> event.req.header, account |-> Atoi(event.req.idStr).val]
         \in issued

\* C10: the handler of a GET the gate let through answers 200 with the
\* account of that id, and the handler of a DELETE answers success only when
\* its own store call removed an account.
C10_AllowedRequestSucceeds ==
    [][event'.kind = "handled" =>
         /\ event'.req.method = "GET" =>
              /\ event'.status = 200
              /\ event'.body.id = Atoi(event'.req.idStr).val
         /\ (event'.req.method = "DELETE" /\ event'.status = 200) =>
              /\ Atoi(event'.req.idStr).val \in DOMAIN store
              /\ Atoi(event'.req.idStr).val \notin DOMAIN store']_vars

====
